---- MODULE Spec2Model ----
(***************************************************************************)
(* A model of rag4finance, its ingestion pipeline and its chat backend:    *)
(*   app/ingestion/parse_pdfs.py   PDFChunker (month segmentation,         *)
(*                                 token-bounded chunking, folders)        *)
(*   app/ingestion/embeddings.py   index_chunks and its caller,            *)
(*                                 semantic_search                         *)
(*   app/chains/rag_chain.py       SmartChatAgent (the plan / execute /    *)
(*                                 finalize graph and its chat history)    *)
(*   app/main.py                   the /chat endpoint and chat_history     *)
(*                                                                         *)
(* Texts are sequences of one-character strings.  Offsets and the cursor   *)
(* start_idx are 0-based as in the Python source; TLA+ sequences are       *)
(* 1-based, so the Python slice s[a:b] is SubSeq(s, a + 1, b).             *)
(***************************************************************************)
EXTENDS Integers, Sequences, FiniteSets, TLC

VARIABLES
    \* PDFChunker.__init__
    chunk_size, overlap,
    \* chunk_monthly_data: arguments, locals, position
    month_text, month_str, words, start_idx, chunk_index, chunks, pc,
    \* history of chunk_monthly_data: the word positions [from, to) of each
    \* emitted chunk (the source offsets the chunk dictionaries do not keep)
    chunk_from, chunk_to,
    \* processing_by_month: argument, locals, position
    text, matches, seg_i, all_chunks, seg_pc,
    \* history of processing_by_month: the [start, end) offsets of each span cut
    spans,
    \* embeddings.py: data_chunks, the Elasticsearch index, index_chunks' loop
    data_chunks, store, idx_i, idx_pc, run,
    \* what index_chunks returned and what the caller printed after it
    ret, caller_msg,
    \* history of the indexing: the index before the first run, the last
    \* attempt made, the positions that failed in this run, and whether an
    \* earlier run had a failure
    store_init, last, failed, prev_failed,
    \* semantic_search: argument, the hits the store answered with, what the
    \* caller got, position
    top_k, response, search_ret, search_pc,
    \* parse_all_pdfs_by_month: the folder's files, the loop, its all_chunks
    folder, file_i, folder_chunks, ingest_pc,
    \* SmartChatAgent: fields, the AgentState of the running graph, position
    max_chat_history, max_plan_steps, history, task, context, plan, steps,
    results, final_answer, agent_pc,
    \* history of the agent: the answer_user_query calls so far, how often each
    \* node was entered in this run, whether a language model call of this run
    \* raised
    calls, visits, llm_raised,
    \* main.py: the chat_history deque, and the /chat requests received so far
    \* with each one's position in chat_endpoint and its reply
    chat_history, requests

chunker_vars == <<chunk_size, overlap, month_text, month_str, words, start_idx,
                  chunk_index, chunks, pc, chunk_from, chunk_to>>
seg_vars == <<text, matches, seg_i, all_chunks, seg_pc, spans>>
index_vars == <<data_chunks, store, idx_i, idx_pc, run, ret, caller_msg,
                store_init, last, failed, prev_failed>>
search_vars == <<top_k, response, search_ret, search_pc>>
ingest_vars == <<folder, file_i, folder_chunks, ingest_pc>>
agent_vars == <<max_chat_history, max_plan_steps, history, task, context, plan,
                steps, results, final_answer, agent_pc, calls, visits,
                llm_raised>>
chat_vars == <<chat_history, requests>>
rest_vars == <<search_vars, ingest_vars, agent_vars, chat_vars>>
vars == <<chunker_vars, seg_vars, index_vars, rest_vars>>

----------------------------------------------------------------------------
(* Bounds of the model *)

MaxWords == 4        \* words of a month text handed to chunk_monthly_data
MaxChunkSize == 3    \* chunk_size ranges over 1..MaxChunkSize
MaxChunks == 6       \* emitted chunks after which the chunking loop is cut off
MaxTextLen == 7      \* characters of a document handed to processing_by_month
MaxBatch == 3        \* chunks handed to index_chunks
MaxRuns == 2         \* runs of the indexing script against the same index
MaxStored == 3       \* documents in the index that semantic_search queries
MaxTopK == 3         \* top_k ranges over 1..MaxTopK and the default
MaxBlocks == 2       \* paragraphs of a document in an ingested folder
MaxFiles == 2        \* PDF files in an ingested folder
MaxPlanLen == 4      \* characters of a plan the language model returns
MaxPlanSteps == 2    \* max_plan_steps ranges over 1..MaxPlanSteps
MaxCalls == 2        \* answer_user_query calls on one agent
MaxRequests == 3     \* /chat requests received after the first state
MaxInFlight == 2     \* /chat requests being served at the same time

(* Program constants *)

DefaultChunkSize == 350
DefaultOverlap == 75

----------------------------------------------------------------------------
(* Characters.  " " stands for any whitespace character; "m" for the       *)
(* letters of a month name and "y" for a group of four digits (the two     *)
(* parts of MONTH_PATTERN besides the whitespace); "a", "b", "c", "x" are  *)
(* other word characters that differ in how they tokenize.                 *)

SP == " "
WordChar == {"a", "b", "c"}
SegChar == {"m", "y", "x", SP}

(* tiktoken: the token count of a text is the sum over its pre-tokenized   *)
(* pieces; a single space before a word is taken into the word's first     *)
(* piece, so a word costs Bare tokens at the start of a text and Spaced    *)
(* tokens after a space, and the two differ per word (for r50k_base,       *)
(* "SolidGoldMagikarp" is several tokens and " SolidGoldMagikarp" is one). *)
(* The encoding is the constructor's encoding_name argument (line 10).     *)
Bare(c) == CASE c = "b" -> 2 [] c = "c" -> 3 [] OTHER -> 1
Spaced(c) == CASE c = "b" -> 2 [] OTHER -> 1
Inner(c) == 1

TokenCost(t, i) ==
    IF t[i] = SP THEN 0
    ELSE IF i = 1 THEN Bare(t[i])
    ELSE IF t[i - 1] = SP THEN Spaced(t[i])
    ELSE Inner(t[i])

RECURSIVE SumCost(_, _)
SumCost(t, i) == IF i = 0 THEN 0 ELSE SumCost(t, i - 1) + TokenCost(t, i)

count_tokens(t) == SumCost(t, Len(t))

----------------------------------------------------------------------------
(* str and re primitives *)

RECURSIVE Join(_)
Join(ws) ==
    IF ws = <<>> THEN <<>>
    ELSE IF Len(ws) = 1 THEN ws[1]
    ELSE ws[1] \o <<SP>> \o Join(Tail(ws))

RECURSIVE LStrip(_)
LStrip(t) == IF t # <<>> /\ t[1] = SP THEN LStrip(Tail(t)) ELSE t

RECURSIVE RStrip(_)
RStrip(t) ==
    IF t # <<>> /\ t[Len(t)] = SP THEN RStrip(SubSeq(t, 1, Len(t) - 1)) ELSE t

Strip(t) == LStrip(RStrip(t))

\* str.split(): the maximal runs of non-whitespace characters, in order
RECURSIVE SplitFrom(_, _, _)
SplitFrom(t, cur, acc) ==
    IF t = <<>> THEN (IF cur = <<>> THEN acc ELSE Append(acc, cur))
    ELSE IF t[1] = SP
         THEN SplitFrom(Tail(t), <<>>, IF cur = <<>> THEN acc ELSE Append(acc, cur))
         ELSE SplitFrom(Tail(t), Append(cur, t[1]), acc)

Split(t) == SplitFrom(t, <<>>, <<>>)

StartsWith(t, p) == Len(p) <= Len(t) /\ SubSeq(t, 1, Len(p)) = p

\* line 103 with the heading left in place
KeepHeading(t, p) == t

\* re.sub("^" + re.escape(month_str), "", month_text)
RemoveHeading(t, p) == IF StartsWith(t, p) THEN SubSeq(t, Len(p) + 1, Len(t)) ELSE t

----------------------------------------------------------------------------
(* PDFChunker.chunk_monthly_data *)

Heading == <<"m", SP, "y">>

NoChunker ==
    /\ month_text = <<>> /\ month_str = <<>> /\ words = <<>>
    /\ start_idx = 0 /\ chunk_index = 0 /\ chunks = <<>> /\ pc = "idle"
    /\ chunk_from = <<>> /\ chunk_to = <<>>

\* the test of line 129, off by one
FitsChunkOffByOne(test_tokens, limit) == test_tokens <= limit + 1

\* the test of line 129
FitsChunk(test_tokens, limit) == test_tokens <= limit

\* the test of line 159, off by one
FitsOverlapOffByOne(test_tokens, limit) == test_tokens <= limit + 1

\* the test of line 159
FitsOverlap(test_tokens, limit) == test_tokens <= limit

\* lines 119-134: add words from position i (1-based) until one does not fit
RECURSIVE AcceptFrom(_, _, _, _)
AcceptFrom(ws, i, cur, limit) ==
    IF i > Len(ws) THEN cur
    ELSE LET test_chunk == Join(Append(cur.current_chunk_words, ws[i]))
             test_tokens == count_tokens(test_chunk)
         IN  IF FitsChunk(test_tokens, limit)
             THEN AcceptFrom(ws, i + 1,
                             [current_chunk_words |-> Append(cur.current_chunk_words, ws[i]),
                              current_tokens |-> test_tokens], limit)
             ELSE cur

\* lines 151-163: work backwards from the end of the chunk, j 1-based
RECURSIVE OverlapScan(_, _, _, _)
OverlapScan(cur_words, j, overlap_words, limit) ==
    IF j = 0 THEN overlap_words
    ELSE LET test_overlap == SubSeq(cur_words, j, Len(cur_words))
         IN  IF FitsOverlap(count_tokens(Join(test_overlap)), limit)
             THEN OverlapScan(cur_words, j - 1, test_overlap, limit)
             ELSE overlap_words

\* lines 166-171
NextStart(start, cur_len, overlap_length) ==
    IF overlap_length > 0 THEN start + cur_len - overlap_length ELSE start + cur_len

\* lines 139-144
MakeChunk(mstr, index, cur) ==
    [month |-> mstr,
     chunk_id |-> <<mstr, index + 1>>,
     text |-> Join(cur.current_chunk_words),
     token_count |-> cur.current_tokens]

\* line 149
NotLastChunk(start, cur_len, n_words) == start + cur_len < n_words

\* lines 100-115
Begin ==
    /\ pc = "start"
    /\ LET clean_text == Strip(RemoveHeading(month_text, month_str))
       IN  IF clean_text = <<>> \/ Split(clean_text) = <<>>
           THEN /\ pc' = "done"
                /\ UNCHANGED <<words, start_idx, chunk_index>>
           ELSE /\ words' = Split(clean_text)
                /\ chunk_index' = 0
                /\ start_idx' = 0
                /\ pc' = "loop"
    /\ chunks' = <<>>
    /\ UNCHANGED <<chunk_size, overlap, month_text, month_str, chunk_from, chunk_to>>
    /\ UNCHANGED <<seg_vars, index_vars>>
    /\ UNCHANGED rest_vars

\* lines 117-177: one iteration of the while loop
LoopIter ==
    /\ pc = "loop"
    /\ start_idx < Len(words)
    /\ Len(chunks) < MaxChunks
    /\ LET cur == AcceptFrom(words, start_idx + 1,
                             [current_chunk_words |-> <<>>, current_tokens |-> 0],
                             chunk_size)
           n == Len(cur.current_chunk_words)
       IN  IF n > 0
           THEN /\ chunks' = Append(chunks, MakeChunk(month_str, chunk_index, cur))
                /\ chunk_index' = chunk_index + 1
                /\ chunk_from' = Append(chunk_from, start_idx)
                /\ chunk_to' = Append(chunk_to, start_idx + n)
                /\ IF NotLastChunk(start_idx, n, Len(words))
                   THEN LET overlap_words ==
                                OverlapScan(cur.current_chunk_words, n, <<>>, overlap)
                        IN  /\ start_idx' = NextStart(start_idx, n, Len(overlap_words))
                            /\ pc' = "loop"
                   ELSE /\ pc' = "done"
                        /\ UNCHANGED start_idx
           ELSE /\ start_idx' = start_idx + 1
                /\ UNCHANGED <<chunks, chunk_index, chunk_from, chunk_to, pc>>
    /\ UNCHANGED <<chunk_size, overlap, month_text, month_str, words>>
    /\ UNCHANGED <<seg_vars, index_vars>>
    /\ UNCHANGED rest_vars

\* line 117 false, line 179
LoopExit ==
    /\ pc = "loop"
    /\ start_idx >= Len(words)
    /\ pc' = "done"
    /\ UNCHANGED <<chunk_size, overlap, month_text, month_str, words, start_idx,
                   chunk_index, chunks, chunk_from, chunk_to>>
    /\ UNCHANGED <<seg_vars, index_vars>>
    /\ UNCHANGED rest_vars

ChunkerNext == Begin \/ LoopIter \/ LoopExit

----------------------------------------------------------------------------
(* PDFChunker.processing_by_month *)

NoSegmenter ==
    /\ text = <<>> /\ matches = <<>> /\ seg_i = 0 /\ all_chunks = <<>>
    /\ seg_pc = "idle" /\ spans = <<>>

\* the length of the whitespace run at 1-based position j
RECURSIVE SpaceRun(_, _)
SpaceRun(t, j) == IF j <= Len(t) /\ t[j] = SP THEN 1 + SpaceRun(t, j + 1) ELSE 0

\* MONTH_PATTERN at 1-based position i: the 1-based position of the match's
\* last character, 0 when the pattern does not match there
MatchEndAt(t, i) ==
    IF t[i] # "m" THEN 0
    ELSE LET r == SpaceRun(t, i + 1)
         IN  IF r >= 1 /\ i + r + 1 <= Len(t) /\ t[i + r + 1] = "y"
             THEN i + r + 1 ELSE 0

\* list(re.finditer(MONTH_PATTERN, text, re.IGNORECASE)): the leftmost
\* non-overlapping matches, as 0-based [start, end) offsets
RECURSIVE FindAll(_, _, _)
FindAll(t, p, acc) ==
    IF p > Len(t) THEN acc
    ELSE LET e == MatchEndAt(t, p)
         IN  IF e > 0
             THEN FindAll(t, e + 1, Append(acc, [start |-> p - 1, end |-> e]))
             ELSE FindAll(t, p + 1, acc)

\* line 187
SpanStart(ms, i) == ms[i + 1].start

\* line 188 with every span running to the end of the document
SpanEndOfText(ms, i, t) == Len(t)

\* line 188
SpanEnd(ms, i, t) == IF i + 1 < Len(ms) THEN ms[i + 2].start ELSE Len(t)

\* lines 183-184
SegBegin ==
    /\ seg_pc = "start"
    /\ matches' = FindAll(text, 1, <<>>)
    /\ all_chunks' = <<>>
    /\ seg_i' = 0
    /\ seg_pc' = "loop"
    /\ UNCHANGED <<text, spans>>
    /\ UNCHANGED <<chunker_vars, index_vars>>
    /\ UNCHANGED rest_vars

\* lines 186-193: cut the span of match seg_i and call chunk_monthly_data
CutSpan ==
    /\ seg_pc = "loop"
    /\ seg_i < Len(matches)
    /\ LET start == SpanStart(matches, seg_i)
           end == SpanEnd(matches, seg_i, text)
       IN  /\ month_str' = SubSeq(text, matches[seg_i + 1].start + 1, matches[seg_i + 1].end)
           /\ month_text' = Strip(SubSeq(text, start + 1, end))
           /\ spans' = Append(spans, [start |-> start, end |-> end])
    /\ words' = <<>> /\ start_idx' = 0 /\ chunk_index' = 0 /\ chunks' = <<>>
    /\ chunk_from' = <<>> /\ chunk_to' = <<>>
    /\ pc' = "start"
    /\ seg_pc' = "chunking"
    /\ UNCHANGED <<chunk_size, overlap, text, matches, seg_i, all_chunks>>
    /\ UNCHANGED index_vars
    /\ UNCHANGED rest_vars

\* lines 193-194: chunk_monthly_data has returned
Collect ==
    /\ seg_pc = "chunking"
    /\ pc = "done"
    /\ all_chunks' = all_chunks \o chunks
    /\ seg_i' = seg_i + 1
    /\ seg_pc' = "loop"
    /\ pc' = "idle"
    /\ UNCHANGED <<chunk_size, overlap, month_text, month_str, words, start_idx,
                   chunk_index, chunks, chunk_from, chunk_to>>
    /\ UNCHANGED <<text, matches, spans>>
    /\ UNCHANGED index_vars
    /\ UNCHANGED rest_vars

\* line 186 exhausted, line 200
SegReturn ==
    /\ seg_pc = "loop"
    /\ seg_i >= Len(matches)
    /\ seg_pc' = "done"
    /\ UNCHANGED <<text, matches, seg_i, all_chunks, spans>>
    /\ UNCHANGED <<chunker_vars, index_vars>>
    /\ UNCHANGED rest_vars

SegNext == SegBegin \/ CutSpan \/ Collect \/ SegReturn

----------------------------------------------------------------------------
(* PDFChunker.parse_all_pdfs_by_month and process_single_pdf *)

\* a file of the folder: what parse_pdf extracts from it, or that reading
\* it raises
PdfFile(t) == [readable |-> TRUE, text |-> t]
BrokenPdf == [readable |-> FALSE, text |-> <<>>]

\* lines 217-223
IngestBegin ==
    /\ ingest_pc = "start"
    /\ folder_chunks' = <<>>
    /\ file_i' = 0
    /\ ingest_pc' = IF folder = <<>> THEN "return" ELSE "loop"
    /\ UNCHANGED folder
    /\ UNCHANGED <<chunker_vars, seg_vars, index_vars>>
    /\ UNCHANGED <<search_vars, agent_vars, chat_vars>>

\* lines 225-229 and 202-207: the next file is read and handed to
\* processing_by_month; when reading raises, the except clause of lines
\* 235-236 goes on with the next file
ProcessPdf ==
    /\ ingest_pc = "loop"
    /\ file_i < Len(folder)
    /\ IF folder[file_i + 1].readable
       THEN /\ text' = folder[file_i + 1].text
            /\ matches' = <<>> /\ seg_i' = 0 /\ all_chunks' = <<>>
            /\ spans' = <<>>
            /\ seg_pc' = "start"
            /\ ingest_pc' = "file"
            /\ UNCHANGED file_i
       ELSE /\ file_i' = file_i + 1
            /\ UNCHANGED <<seg_vars, ingest_pc>>
    /\ UNCHANGED <<folder, folder_chunks>>
    /\ UNCHANGED <<chunker_vars, index_vars>>
    /\ UNCHANGED <<search_vars, agent_vars, chat_vars>>

\* lines 207-213 and 229-233: processing_by_month has returned; the file's
\* chunks go to the end of all_chunks as they are
FileDone ==
    /\ ingest_pc = "file"
    /\ seg_pc = "done"
    /\ folder_chunks' = folder_chunks \o all_chunks
    /\ file_i' = file_i + 1
    /\ ingest_pc' = "loop"
    /\ seg_pc' = "idle"
    /\ UNCHANGED <<text, matches, seg_i, all_chunks, spans>>
    /\ UNCHANGED folder
    /\ UNCHANGED <<chunker_vars, index_vars>>
    /\ UNCHANGED <<search_vars, agent_vars, chat_vars>>

\* lines 223, 238 and embeddings.py line 11: the chunks of all files are the
\* script's data_chunks
IngestReturn ==
    /\ \/ ingest_pc = "return"
       \/ ingest_pc = "loop" /\ file_i >= Len(folder)
    /\ ingest_pc' = "done"
    /\ data_chunks' = folder_chunks
    /\ idx_pc' = "start"
    /\ UNCHANGED <<store, idx_i, run, ret, caller_msg, store_init, last, failed,
                   prev_failed>>
    /\ UNCHANGED <<folder, file_i, folder_chunks>>
    /\ UNCHANGED <<chunker_vars, seg_vars>>
    /\ UNCHANGED <<search_vars, agent_vars, chat_vars>>

IngestNext == IngestBegin \/ ProcessPdf \/ FileDone \/ IngestReturn

----------------------------------------------------------------------------
(* embeddings.py: index_chunks and the script around it *)

EmptyStore == [k \in {} |-> {}]

\* a function's return value: None carries no report
NoneValue == [is_report |-> FALSE, succeeded |-> {}, failed |-> {}]

NoAttempt == [i |-> 0, outcome |-> "none"]

NoIndexer ==
    /\ data_chunks = <<>> /\ store = EmptyStore /\ idx_i = 0 /\ idx_pc = "idle"
    /\ run = 1 /\ ret = NoneValue /\ caller_msg = "" /\ store_init = EmptyStore
    /\ last = NoAttempt /\ failed = {} /\ prev_failed = FALSE

\* what one pass of the try block can do: finish, or raise in model.encode
\* (line 57), or raise in es.index (line 69)
Outcomes == {"ok", "encode_error", "index_error"}

\* line 57: the embedding provider is a function of the text
Encode(t) == <<"embedding", t>>

\* lines 60-66
Doc(chunk) ==
    [month |-> chunk.month,
     chunk_id |-> chunk.chunk_id,
     text |-> chunk.text,
     token_count |-> chunk.token_count,
     embedding |-> Encode(chunk.text)]

\* line 69 as a create that leaves an existing document in place
EsCreateOnly(st, id, rec) ==
    [k \in (DOMAIN st) \cup {id} |-> IF k \in DOMAIN st THEN st[k] ELSE rec]

\* line 69: es.index(index, id, document) creates or replaces the document
\* stored under id; written_in records the run that wrote it
EsIndex(st, id, rec) ==
    [k \in (DOMAIN st) \cup {id} |-> IF k = id THEN rec ELSE st[k]]

\* lines 55-73: the index after the try block ran on one chunk
AfterAttempt(st, chunk, outcome, r) ==
    IF outcome = "ok"
    THEN EsIndex(st, chunk.chunk_id, [document |-> Doc(chunk), written_in |-> r])
    ELSE st

\* lines 54-73 with the try around the loop: a failure ends the batch
AbortOnFailure(i, outcome, n) == IF outcome = "ok" THEN i + 1 ELSE n

\* lines 54, 72-73: the except clause is inside the for loop, which goes on
AfterChunk(i, outcome, n) == i + 1

ChunkIds(cs) == {cs[k].chunk_id : k \in 1..Len(cs)}

\* lines 76, 79-80
Caller ==
    /\ idx_pc = "start"
    /\ IF data_chunks # <<>>
       THEN /\ idx_pc' = "loop"
            /\ idx_i' = 0
            /\ UNCHANGED caller_msg
       ELSE /\ idx_pc' = "done"
            /\ caller_msg' = "No chunks to index!"
            /\ UNCHANGED idx_i
    /\ UNCHANGED <<data_chunks, store, run, ret, store_init, last, failed, prev_failed>>
    /\ UNCHANGED <<chunker_vars, seg_vars>>
    /\ UNCHANGED rest_vars

\* lines 54-73: one iteration of the for loop
IndexStep ==
    /\ idx_pc = "loop"
    /\ idx_i < Len(data_chunks)
    /\ \E outcome \in Outcomes :
          /\ store' = AfterAttempt(store, data_chunks[idx_i + 1], outcome, run)
          /\ idx_i' = AfterChunk(idx_i, outcome, Len(data_chunks))
          /\ last' = [i |-> idx_i + 1, outcome |-> outcome]
          /\ failed' = IF outcome = "ok" THEN failed ELSE failed \cup {idx_i + 1}
    /\ UNCHANGED <<data_chunks, idx_pc, run, ret, caller_msg, store_init, prev_failed>>
    /\ UNCHANGED <<chunker_vars, seg_vars>>
    /\ UNCHANGED rest_vars

\* line 54 exhausted: index_chunks returns None; lines 77-78
IndexReturn ==
    /\ idx_pc = "loop"
    /\ idx_i >= Len(data_chunks)
    /\ ret' = NoneValue
    /\ caller_msg' = "All chunks indexed successfully!"
    /\ idx_pc' = "done"
    /\ UNCHANGED <<data_chunks, store, idx_i, run, store_init, last, failed, prev_failed>>
    /\ UNCHANGED <<chunker_vars, seg_vars>>
    /\ UNCHANGED rest_vars

\* the script is run again on the same documents against the same index
Rerun ==
    /\ idx_pc = "done"
    /\ run < MaxRuns
    /\ run' = run + 1
    /\ idx_pc' = "start"
    /\ idx_i' = 0
    /\ ret' = NoneValue
    /\ caller_msg' = ""
    /\ last' = NoAttempt
    /\ failed' = {}
    /\ prev_failed' = (prev_failed \/ failed # {})
    /\ UNCHANGED <<data_chunks, store, store_init>>
    /\ UNCHANGED <<chunker_vars, seg_vars>>
    /\ UNCHANGED rest_vars

IndexNext == Caller \/ IndexStep \/ IndexReturn \/ Rerun

----------------------------------------------------------------------------
(* embeddings.py: semantic_search *)

Min2(a, b) == IF a <= b THEN a ELSE b

\* line 84: top_k=5
DefaultTopK == 5

\* the function's outcome turned into the empty hit list
SwallowSearchError(e) == [kind |-> "hits", hits |-> <<>>, error |-> "none"]

\* lines 86 and 89-98 stand in no try block: what model.encode or es.search
\* raises leaves semantic_search as an exception
RaiseSearchError(e) == [kind |-> "raised", hits |-> <<>>, error |-> e]

\* line 98: the fields of a hit that _source asks for
Hit(st, id) ==
    [id |-> id,
     source |-> [month |-> st[id].document.month,
                 chunk_id |-> st[id].document.chunk_id,
                 text |-> st[id].document.text,
                 token_count |-> st[id].document.token_count]]

\* the orders in which the store may rank its documents against a query
\* vector: the scores are the store's, so every order is possible
Rankings(st) ==
    {r \in [1..Cardinality(DOMAIN st) -> DOMAIN st] :
        \A i, j \in DOMAIN r : i # j => r[i] # r[j]}

\* lines 89-98, 101: the hits of a knn search with k = top_k are the k best
\* ranked documents, best first, or all documents when there are fewer
KnnHits(st, k) ==
    {[i \in 1..Min2(k, Cardinality(DOMAIN st)) |-> Hit(st, r[i])] :
        r \in Rankings(st)}

\* line 86
SearchEmbed ==
    /\ search_pc = "start"
    /\ \E outcome \in {"ok", "encode_error"} :
         IF outcome = "ok"
         THEN /\ search_pc' = "knn"
              /\ UNCHANGED search_ret
         ELSE /\ search_pc' = "raised"
              /\ search_ret' = RaiseSearchError(outcome)
    /\ UNCHANGED <<top_k, response>>
    /\ UNCHANGED <<chunker_vars, seg_vars, index_vars>>
    /\ UNCHANGED <<ingest_vars, agent_vars, chat_vars>>

\* lines 89-98, 101
SearchKnn ==
    /\ search_pc = "knn"
    /\ \/ /\ search_pc' = "raised"
          /\ search_ret' = RaiseSearchError("search_error")
          /\ UNCHANGED response
       \/ /\ response' \in KnnHits(store, top_k)
          /\ search_pc' = "print"
          /\ UNCHANGED search_ret
    /\ UNCHANGED top_k
    /\ UNCHANGED <<chunker_vars, seg_vars, index_vars>>
    /\ UNCHANGED <<ingest_vars, agent_vars, chat_vars>>

\* lines 102-109: the loop prints fields that every hit carries, then the
\* hits are returned as the store gave them
SearchReturn ==
    /\ search_pc = "print"
    /\ search_ret' = [kind |-> "hits", hits |-> response, error |-> "none"]
    /\ search_pc' = "done"
    /\ UNCHANGED <<top_k, response>>
    /\ UNCHANGED <<chunker_vars, seg_vars, index_vars>>
    /\ UNCHANGED <<ingest_vars, agent_vars, chat_vars>>

SearchNext == SearchEmbed \/ SearchKnn \/ SearchReturn

----------------------------------------------------------------------------
(* rag_chain.py: SmartChatAgent *)

\* line 26: max_chat_history=4
DefaultMaxChatHistory == 4

\* "\n" stands for any line boundary that str.splitlines knows
NL == "\n"
PlanChar == {NL, SP, "s"}

\* what the language model may answer: any plan text, one result per step,
\* any of two final answers
PlanTexts == UNION {[1..k -> PlanChar] : k \in 0..MaxPlanLen}
StepResults == {<<"r">>}
Answers == {<<"a">>, <<"b">>}
Questions == {<<"p">>, <<"q">>}

\* no node of the graph entered yet
NoVisits == [plan_task |-> 0, execute_step |-> 0, finalize_answer |-> 0]

HumanMessage(content) == [type |-> "human", content |-> content]
AIMessage(content) == [type |-> "ai", content |-> content]

RECURSIVE SplitLinesFrom(_, _, _, _)
\* str.splitlines: a line ends at each line boundary; what follows the last
\* boundary is a line only if it is not empty
SplitLinesFrom(s, i, cur, acc) ==
    IF i > Len(s) THEN (IF cur = <<>> THEN acc ELSE Append(acc, cur))
    ELSE IF s[i] = NL THEN SplitLinesFrom(s, i + 1, <<>>, Append(acc, cur))
    ELSE SplitLinesFrom(s, i + 1, Append(cur, s[i]), acc)

SplitLines(s) == SplitLinesFrom(s, 1, <<>>, <<>>)

RECURSIVE StrippedLines(_)
\* line 68: the stripped lines that are not blank
StrippedLines(ls) ==
    IF ls = <<>> THEN <<>>
    ELSE (IF Strip(Head(ls)) = <<>> THEN <<>> ELSE <<Strip(Head(ls))>>)
         \o StrippedLines(Tail(ls))

\* the Python slice s[:n] for n >= 0
Take(s, n) == SubSeq(s, 1, IF n <= Len(s) THEN n ELSE Len(s))

\* lines 68-71
RetainedSteps(p, max_steps) == Take(StrippedLines(SplitLines(p)), max_steps)

\* lines 136-145: the last max_chat_history messages, each under its speaker;
\* the Python slice h[-n:] is all of h for n = 0
GetContext(h, n) ==
    LET from == IF n = 0 \/ n >= Len(h) THEN 1 ELSE Len(h) - n + 1
    IN  [i \in 1..(Len(h) - from + 1) |->
            [speaker |-> IF h[from + i - 1].type = "human"
                         THEN "User" ELSE "Assistant",
             content |-> h[from + i - 1].content]]

\* line 126: the edge from plan_task leads to execute_step
AfterPlan(new_steps) == "execute_step"

\* lines 90-91, 127-131
should_continue(res, sts) ==
    IF Len(res) < Len(sts) THEN "execute_step" ELSE "finalize_answer"

\* the record of the running call gets its outcome
Outcome(cs, status, answer) ==
    [cs EXCEPT ![Len(cs)] = [@ EXCEPT !.status = status, !.answer = answer]]

Entered(node) == [visits EXCEPT ![node] = @ + 1]

\* lines 147-165: the question goes into _history, then the graph is invoked
\* on a fresh state
AnswerUserQuery ==
    /\ agent_pc \in {"ready", "returned", "raised"}
    /\ Len(calls) < MaxCalls
    /\ \E question \in Questions :
         /\ history' = Append(history, HumanMessage(question))
         /\ task' = question
         /\ calls' = Append(calls, [question |-> question, status |-> "running",
                                    answer |-> <<>>])
    /\ context' = GetContext(history', max_chat_history)
    /\ steps' = <<>> /\ results' = <<>> /\ plan' = <<>> /\ final_answer' = <<>>
    /\ visits' = NoVisits /\ llm_raised' = FALSE
    /\ agent_pc' = "plan_task"
    /\ UNCHANGED <<max_chat_history, max_plan_steps>>
    /\ UNCHANGED <<chunker_vars, seg_vars, index_vars>>
    /\ UNCHANGED <<search_vars, ingest_vars, chat_vars>>

\* lines 46-76 and the edge of line 126; steps has the reducer operator.add
\* (line 42)
PlanTask ==
    /\ agent_pc = "plan_task"
    /\ visits' = Entered("plan_task")
    /\ \/ /\ llm_raised' = TRUE
          /\ agent_pc' = "raised"
          /\ calls' = Outcome(calls, "raised", <<>>)
          /\ UNCHANGED <<plan, steps>>
       \/ /\ \E p \in PlanTexts :
               /\ plan' = p
               /\ steps' = steps \o RetainedSteps(p, max_plan_steps)
          /\ agent_pc' = AfterPlan(steps')
          /\ UNCHANGED <<llm_raised, calls>>
    /\ UNCHANGED <<max_chat_history, max_plan_steps, history, task, context,
                   results, final_answer>>
    /\ UNCHANGED <<chunker_vars, seg_vars, index_vars>>
    /\ UNCHANGED <<search_vars, ingest_vars, chat_vars>>

\* lines 78-88 and the conditional edge of lines 127-131; line 80 raises
\* IndexError when results is as long as steps
ExecuteStep ==
    /\ agent_pc = "execute_step"
    /\ visits' = Entered("execute_step")
    /\ IF Len(results) >= Len(steps)
       THEN /\ agent_pc' = "raised"
            /\ calls' = Outcome(calls, "raised", <<>>)
            /\ UNCHANGED <<results, llm_raised>>
       ELSE \/ /\ llm_raised' = TRUE
               /\ agent_pc' = "raised"
               /\ calls' = Outcome(calls, "raised", <<>>)
               /\ UNCHANGED results
            \/ /\ \E result \in StepResults :
                    results' = results \o <<result>>
               /\ agent_pc' = should_continue(results', steps)
               /\ UNCHANGED <<llm_raised, calls>>
    /\ UNCHANGED <<max_chat_history, max_plan_steps, history, task, context,
                   plan, steps, final_answer>>
    /\ UNCHANGED <<chunker_vars, seg_vars, index_vars>>
    /\ UNCHANGED <<search_vars, ingest_vars, chat_vars>>

\* lines 93-117 and the edge of line 132
FinalizeAnswer ==
    /\ agent_pc = "finalize_answer"
    /\ visits' = Entered("finalize_answer")
    /\ \/ /\ llm_raised' = TRUE
          /\ agent_pc' = "raised"
          /\ calls' = Outcome(calls, "raised", <<>>)
          /\ UNCHANGED final_answer
       \/ /\ final_answer' \in Answers
          /\ agent_pc' = "end"
          /\ UNCHANGED <<llm_raised, calls>>
    /\ UNCHANGED <<max_chat_history, max_plan_steps, history, task, context,
                   plan, steps, results>>
    /\ UNCHANGED <<chunker_vars, seg_vars, index_vars>>
    /\ UNCHANGED <<search_vars, ingest_vars, chat_vars>>

\* lines 167-172
SaveAnswer ==
    /\ agent_pc = "end"
    /\ history' = Append(history, AIMessage(final_answer))
    /\ calls' = Outcome(calls, "returned", final_answer)
    /\ agent_pc' = "returned"
    /\ UNCHANGED <<max_chat_history, max_plan_steps, task, context, plan, steps,
                   results, final_answer, visits, llm_raised>>
    /\ UNCHANGED <<chunker_vars, seg_vars, index_vars>>
    /\ UNCHANGED <<search_vars, ingest_vars, chat_vars>>

AgentNext ==
    AnswerUserQuery \/ PlanTask \/ ExecuteStep \/ FinalizeAnswer \/ SaveAnswer

----------------------------------------------------------------------------
(* main.py: the /chat endpoint.  chat_endpoint is a plain def, which FastAPI *)
(* runs in a worker thread per request: requests in flight interleave at    *)
(* every statement, and each append is atomic.                              *)

\* line 21: deque(maxlen=20)
ChatMaxLen == 20

\* line 18: the agent's configuration
ChatAgentHistory == 10
ChatAgentSteps == 2

ChatMessages == {<<"q">>}
ChatReplies == {<<"a">>}

\* deque.append with maxlen: a full deque drops its oldest entry
DequeAppend(dq, x) ==
    IF Len(dq) < ChatMaxLen THEN Append(dq, x) ELSE Append(Tail(dq), x)

\* lines 36, 42: an entry of chat_history; of is the request that wrote it,
\* which the program does not store
Entry(role, content, r) == [role |-> role, content |-> content, of |-> r]

\* the deque and the agent's _history after k requests were served one after
\* the other and answered; these are numbered -k .. -1
PastChat(k) ==
    [i \in 1..(2 * k) |->
        IF i % 2 = 1
        THEN Entry("user", <<"q">>, (i + 1) \div 2 - k - 1)
        ELSE Entry("assistant", <<"a">>, i \div 2 - k - 1)]

PastHistory(k) ==
    [i \in 1..(2 * k) |->
        IF i % 2 = 1 THEN HumanMessage(<<"q">>) ELSE AIMessage(<<"a">>)]

InFlight == {r \in DOMAIN requests : requests[r].pc \notin {"done", "failed"}}

At(r, pc_r) == [requests EXCEPT ![r].pc = pc_r]

\* lines 33-36: a request arrives and its message is stored
ChatReceive ==
    /\ Len(requests) < MaxRequests
    /\ Cardinality(InFlight) < MaxInFlight
    /\ \E message \in ChatMessages :
         /\ requests' = Append(requests, [pc |-> "stored", message |-> message,
                                          reply |-> <<>>])
         /\ chat_history' =
               DequeAppend(chat_history,
                           Entry("user", message, Len(requests) + 1))
    /\ UNCHANGED agent_vars
    /\ UNCHANGED <<chunker_vars, seg_vars, index_vars>>
    /\ UNCHANGED <<search_vars, ingest_vars>>

\* line 41 into rag_chain.py line 153: the question goes into _history
ChatAsk ==
    \E r \in DOMAIN requests :
        /\ requests[r].pc = "stored"
        /\ history' = Append(history, HumanMessage(requests[r].message))
        /\ requests' = At(r, "running")
        /\ UNCHANGED <<max_chat_history, max_plan_steps, task, context, plan, steps,
                       results, final_answer, agent_pc, calls, visits, llm_raised>>
        /\ UNCHANGED chat_history
        /\ UNCHANGED <<chunker_vars, seg_vars, index_vars>>
        /\ UNCHANGED <<search_vars, ingest_vars>>

\* rag_chain.py lines 156-165 raise (a language model call fails, or the plan
\* is blank and execute_step raises IndexError): nothing catches it in
\* answer_user_query or in chat_endpoint, and the request fails
ChatAgentRaise ==
    \E r \in DOMAIN requests :
        /\ requests[r].pc = "running"
        /\ requests' = At(r, "failed")
        /\ UNCHANGED chat_history
        /\ UNCHANGED agent_vars
        /\ UNCHANGED <<chunker_vars, seg_vars, index_vars>>
        /\ UNCHANGED <<search_vars, ingest_vars>>

\* rag_chain.py lines 156-172: the graph run ends on a final answer, which
\* goes into _history and back to chat_endpoint; the AgentState of the run is
\* local to the call
ChatAgentAnswer ==
    \E r \in DOMAIN requests :
        /\ requests[r].pc = "running"
        /\ \E answer \in ChatReplies :
             /\ history' = Append(history, AIMessage(answer))
             /\ requests' = [requests EXCEPT ![r].pc = "answered",
                                             ![r].reply = answer]
        /\ UNCHANGED <<max_chat_history, max_plan_steps, task, context, plan, steps,
                       results, final_answer, agent_pc, calls, visits, llm_raised>>
        /\ UNCHANGED chat_history
        /\ UNCHANGED <<chunker_vars, seg_vars, index_vars>>
        /\ UNCHANGED <<search_vars, ingest_vars>>

\* lines 42-44: the reply is stored and the response is sent
ChatReply ==
    \E r \in DOMAIN requests :
        /\ requests[r].pc = "answered"
        /\ chat_history' =
              DequeAppend(chat_history, Entry("assistant", requests[r].reply, r))
        /\ requests' = At(r, "done")
        /\ UNCHANGED agent_vars
        /\ UNCHANGED <<chunker_vars, seg_vars, index_vars>>
        /\ UNCHANGED <<search_vars, ingest_vars>>

ChatNext ==
    ChatReceive \/ ChatAsk \/ ChatAgentRaise \/ ChatAgentAnswer \/ ChatReply

----------------------------------------------------------------------------
(* The parts that a specification leaves out stay as they are here *)

NoSearch ==
    /\ top_k = 0 /\ response = <<>> /\ search_pc = "idle"
    /\ search_ret = [kind |-> "none", hits |-> <<>>, error |-> "none"]

NoIngest ==
    /\ folder = <<>> /\ file_i = 0 /\ folder_chunks = <<>> /\ ingest_pc = "idle"

NoAgent ==
    /\ max_chat_history = 0 /\ max_plan_steps = 0 /\ history = <<>>
    /\ task = <<>> /\ context = <<>> /\ plan = <<>> /\ steps = <<>>
    /\ results = <<>> /\ final_answer = <<>>
    /\ agent_pc = "idle" /\ calls = <<>> /\ visits = NoVisits
    /\ llm_raised = FALSE

NoChat ==
    /\ chat_history = <<>> /\ requests = <<>>

NoRest == NoSearch /\ NoIngest /\ NoAgent /\ NoChat

----------------------------------------------------------------------------
(* Inputs *)

SeqsUpTo(S, n) == UNION {[1..k -> S] : k \in 0..n}

ParamPairs == {<<cs, ov>> \in (1..MaxChunkSize) \X (0..MaxChunkSize) : cs > ov}

\* a month text as chunk_monthly_data may get it: the heading or not, then
\* single-character words joined by one space, with or without whitespace
\* around them
MonthTexts ==
    {(IF hd THEN Heading ELSE <<>>) \o pad \o Join(ws) \o pad :
        hd \in BOOLEAN, pad \in {<<>>, <<SP>>},
        ws \in SeqsUpTo({<<c>> : c \in WordChar}, MaxWords)}

SegParams == {<<DefaultChunkSize, DefaultOverlap>>, <<1, 0>>}

IndexChunks ==
    {[month |-> Heading, chunk_id |-> <<Heading, k>>, text |-> t,
      token_count |-> count_tokens(t)] :
        k \in 1..2, t \in {<<"a">>, <<"b">>}}

\* the index as the script may find it: new, or holding documents of an
\* earlier ingestion
StaleRecord(k) ==
    [document |-> Doc([month |-> Heading, chunk_id |-> <<Heading, k>>,
                       text |-> <<"x">>, token_count |-> 1]),
     written_in |-> 0]

InitialStores ==
    {EmptyStore,
     [id \in {<<Heading, 1>>} |-> StaleRecord(1)],
     [id \in {<<Heading, 3>>} |-> StaleRecord(3)]}

\* the index as a search may find it: empty, or holding indexed chunks
SearchStores ==
    {[id \in {<<Heading, k>> : k \in K} |-> StaleRecord(id[2])] :
        K \in SUBSET (1..MaxStored)}

TopKs == (1..MaxTopK) \cup {DefaultTopK}

RECURSIVE Concat(_)
Concat(ss) == IF ss = <<>> THEN <<>> ELSE Head(ss) \o Concat(Tail(ss))

\* the paragraphs of a document: a month heading with a one-token line under
\* it, a one-token line, a two-token line
Blocks == {Heading \o <<SP, "x", SP>>, <<"x", SP>>, <<"x", "x", SP>>}

\* the files of a folder: PDFs whose text is a few paragraphs, and a PDF that
\* cannot be read
FolderFiles ==
    {PdfFile(Concat(bs)) : bs \in SeqsUpTo(Blocks, MaxBlocks)} \cup {BrokenPdf}

----------------------------------------------------------------------------
(* Specifications *)

\* one call of chunk_monthly_data
InitChunk ==
    /\ \E p \in ParamPairs : chunk_size = p[1] /\ overlap = p[2]
    /\ month_text \in MonthTexts
    /\ month_str = Heading
    /\ words = <<>> /\ start_idx = 0 /\ chunk_index = 0 /\ chunks = <<>>
    /\ chunk_from = <<>> /\ chunk_to = <<>>
    /\ pc = "start"
    /\ NoSegmenter
    /\ NoIndexer
    /\ NoRest

SpecChunk == InitChunk /\ [][ChunkerNext]_vars

\* one call of processing_by_month
InitSeg ==
    /\ \E p \in SegParams : chunk_size = p[1] /\ overlap = p[2]
    /\ NoChunker
    /\ text \in SeqsUpTo(SegChar, MaxTextLen)
    /\ matches = <<>> /\ seg_i = 0 /\ all_chunks = <<>> /\ spans = <<>>
    /\ seg_pc = "start"
    /\ NoIndexer
    /\ NoRest

SpecSeg == InitSeg /\ [][SegNext \/ ChunkerNext]_vars

\* the indexing script, run up to MaxRuns times
InitIndex ==
    /\ chunk_size = DefaultChunkSize /\ overlap = DefaultOverlap
    /\ NoChunker
    /\ NoSegmenter
    /\ data_chunks \in SeqsUpTo(IndexChunks, MaxBatch)
    /\ store \in InitialStores
    /\ store_init = store
    /\ idx_i = 0 /\ idx_pc = "start" /\ run = 1
    /\ ret = NoneValue /\ caller_msg = ""
    /\ last = NoAttempt /\ failed = {} /\ prev_failed = FALSE
    /\ NoRest

SpecIndex == InitIndex /\ [][IndexNext]_vars

\* one call of semantic_search
InitSearch ==
    /\ chunk_size = DefaultChunkSize /\ overlap = DefaultOverlap
    /\ NoChunker
    /\ NoSegmenter
    /\ data_chunks = <<>> /\ store \in SearchStores /\ store_init = store
    /\ idx_i = 0 /\ idx_pc = "idle" /\ run = 1
    /\ ret = NoneValue /\ caller_msg = ""
    /\ last = NoAttempt /\ failed = {} /\ prev_failed = FALSE
    /\ top_k \in TopKs /\ response = <<>> /\ search_pc = "start"
    /\ search_ret = [kind |-> "none", hits |-> <<>>, error |-> "none"]
    /\ NoIngest /\ NoAgent /\ NoChat

SpecSearch == InitSearch /\ [][SearchNext]_vars

\* one SmartChatAgent after its constructor (lines 22-33), asked up to
\* MaxCalls questions one after the other
InitAgent ==
    /\ chunk_size = DefaultChunkSize /\ overlap = DefaultOverlap
    /\ NoChunker
    /\ NoSegmenter
    /\ NoIndexer
    /\ NoSearch /\ NoIngest /\ NoChat
    /\ max_chat_history \in {1, DefaultMaxChatHistory}
    /\ max_plan_steps \in 1..MaxPlanSteps
    /\ history = <<>>
    /\ task = <<>> /\ context = <<>> /\ plan = <<>> /\ steps = <<>>
    /\ results = <<>> /\ final_answer = <<>>
    /\ agent_pc = "ready" /\ calls = <<>> /\ visits = NoVisits
    /\ llm_raised = FALSE

SpecAgent == InitAgent /\ [][AgentNext]_vars

\* one run of the ingestion script: parse_all_pdfs_by_month over a folder,
\* then index_chunks into a new index
InitIngest ==
    /\ \E p \in SegParams : chunk_size = p[1] /\ overlap = p[2]
    /\ NoChunker
    /\ NoSegmenter
    /\ NoIndexer
    /\ NoSearch /\ NoAgent /\ NoChat
    /\ folder \in SeqsUpTo(FolderFiles, MaxFiles)
    /\ file_i = 0 /\ folder_chunks = <<>> /\ ingest_pc = "start"

SpecIngest ==
    InitIngest /\ [][IngestNext \/ SegNext \/ ChunkerNext
                     \/ Caller \/ IndexStep \/ IndexReturn]_vars

\* the backend after start-up (main.py lines 17-21) and up to ten requests
\* served one after the other
InitChat ==
    /\ chunk_size = DefaultChunkSize /\ overlap = DefaultOverlap
    /\ NoChunker
    /\ NoSegmenter
    /\ NoIndexer
    /\ NoSearch /\ NoIngest
    /\ max_chat_history = ChatAgentHistory
    /\ max_plan_steps = ChatAgentSteps
    /\ \E k \in 0..(ChatMaxLen \div 2) :
          /\ chat_history = PastChat(k)
          /\ history = PastHistory(k)
    /\ task = <<>> /\ context = <<>> /\ plan = <<>> /\ steps = <<>>
    /\ results = <<>> /\ final_answer = <<>>
    /\ agent_pc = "ready" /\ calls = <<>> /\ visits = NoVisits
    /\ llm_raised = FALSE
    /\ requests = <<>>

SpecChat == InitChat /\ [][ChatNext]_vars

Init ==
    \/ InitChunk \/ InitSeg \/ InitIndex \/ InitSearch \/ InitAgent
    \/ InitIngest \/ InitChat
Next ==
    \/ ChunkerNext \/ SegNext \/ IndexNext \/ SearchNext \/ AgentNext
    \/ IngestNext \/ ChatNext
Spec == Init /\ [][Next]_vars

\* the chunker alone and under the segmenter
InitParse == InitChunk \/ InitSeg
SpecParse == InitParse /\ [][ChunkerNext \/ SegNext]_vars

----------------------------------------------------------------------------
(* Claims about chunk_monthly_data *)

Max(S) == CHOOSE x \in S : \A y \in S : y <= x
Min(S) == CHOOSE x \in S : \A y \in S : x <= y

ChunkWords(k) == Split(chunks[k].text)

\* the chunks' words in emission order, the words a chunk repeats from the
\* chunks before it taken once
RECURSIVE Rebuild(_, _)
Rebuild(k, out) ==
    IF k > Len(chunks) THEN out
    ELSE LET ws == ChunkWords(k)
             repeated == Len(out) - chunk_from[k]
         IN  Rebuild(k + 1,
                     out \o SubSeq(ws, (IF repeated > 0 THEN repeated ELSE 0) + 1, Len(ws)))

EmittedNonFinal == pc = "loop" /\ pc' = "loop" /\ Len(chunks') > Len(chunks)

\* C1: when chunk_monthly_data returns, every word of the cleaned text is in
\* at least one chunk, and the chunks' words in emission order, each overlap
\* region taken once, are the cleaned word sequence.
C1_ChunksCoverAllWords ==
    pc = "done" =>
        /\ \A k \in 1..Len(words) :
              \E c \in 1..Len(chunks) : chunk_from[c] < k /\ k <= chunk_to[c]
        /\ Rebuild(1, <<>>) = words

\* C2: in every iteration of the chunking loop that emits a chunk and is not
\* the last, the cursor start_idx strictly increases.
C2_CursorAdvances ==
    [][EmittedNonFinal => start_idx' > start_idx]_vars

\* C3: when the word at the cursor alone has more tokens than chunk_size, the
\* iteration emits a chunk of exactly that word, with the word's token count,
\* and goes on with the following word.
C3_OversizeWordAlone ==
    [][(/\ pc = "loop"
        /\ start_idx < Len(words)
        /\ count_tokens(words[start_idx + 1]) > chunk_size
        /\ vars' # vars)
       => /\ Len(chunks') = Len(chunks) + 1
          /\ chunks'[Len(chunks')].text = words[start_idx + 1]
          /\ chunks'[Len(chunks')].token_count = count_tokens(words[start_idx + 1])
          /\ start_idx' = start_idx + 1]_vars

\* C4: every emitted chunk has token_count <= chunk_size unless it is a single
\* word whose own token count exceeds chunk_size, and its token_count is the
\* token count of its text.
C4_TokenBudget ==
    \A k \in 1..Len(chunks) :
        /\ chunks[k].token_count = count_tokens(chunks[k].text)
        /\ \/ chunks[k].token_count <= chunk_size
           \/ /\ Len(ChunkWords(k)) = 1
              /\ count_tokens(ChunkWords(k)[1]) > chunk_size

\* a chunk of several words that fills the budget exactly, after another chunk
C4_Witness ==
    /\ Len(chunks) >= 2
    /\ Len(ChunkWords(Len(chunks))) >= 2
    /\ chunks[Len(chunks)].token_count = chunk_size

\* C5: after a non-final chunk the cursor is at the first word of the longest
\* trailing word run of that chunk whose joined token count is <= overlap
\* (directly after the chunk when no non-empty trailing run fits), and the words
\* carried into the next chunk have a joined token count <= overlap.
C5_LongestFittingOverlap ==
    [][EmittedNonFinal =>
        LET cur == Split(chunks'[Len(chunks')].text)
            n == Len(cur)
            fitting == {k \in 1..n :
                           count_tokens(Join(SubSeq(cur, n - k + 1, n))) <= overlap}
            overlap_length == IF fitting = {} THEN 0 ELSE Max(fitting)
        IN  /\ start_idx' = start_idx + n - overlap_length
            /\ count_tokens(Join(SubSeq(words, start_idx' + 1, start_idx + n))) <= overlap]_vars

\* C5, amended: after a non-final chunk the cursor is at the first word of the
\* longest trailing word run of that chunk such that it and every shorter
\* trailing run have a joined token count <= overlap (directly after the chunk
\* when the chunk's last word alone does not fit), and the words carried into
\* the next chunk have a joined token count <= overlap.
C5_OverlapScanStopsAtFirstMisfit ==
    [][EmittedNonFinal =>
        LET cur == Split(chunks'[Len(chunks')].text)
            n == Len(cur)
            Trailing(k) == count_tokens(Join(SubSeq(cur, n - k + 1, n)))
            fitting == {k \in 1..n : \A j \in 1..k : Trailing(j) <= overlap}
            overlap_length == IF fitting = {} THEN 0 ELSE Max(fitting)
        IN  /\ start_idx' = start_idx + n - overlap_length
            /\ count_tokens(Join(SubSeq(words, start_idx' + 1, start_idx + n))) <= overlap]_vars

\* after a non-final chunk: the chunk's last word alone is over the overlap
\* budget, its last two words together are within it, and nothing is carried
C5_Witness ==
    /\ pc = "loop"
    /\ Len(chunks) >= 1
    /\ LET cur == ChunkWords(Len(chunks))
           n == Len(cur)
       IN  /\ n >= 2
           /\ count_tokens(cur[n]) > overlap
           /\ count_tokens(Join(SubSeq(cur, n - 1, n))) <= overlap
           /\ start_idx = chunk_to[Len(chunks)]

----------------------------------------------------------------------------
(* Claims about processing_by_month *)

MatchStarts(t) == {i \in 1..Len(t) : MatchEndAt(t, i) > 0}

RECURSIVE SpanText(_, _)
SpanText(t, k) ==
    IF k = 0 THEN <<>>
    ELSE SpanText(t, k - 1) \o SubSeq(t, spans[k].start + 1, spans[k].end)

\* C6: for a text with n matches of the month-year pattern exactly n spans are
\* cut, the i-th from the start of match i to the start of match i+1 (the end
\* of the text for the last); the spans are contiguous, do not overlap, cover
\* the text from the first heading to the end once, and leave out what is
\* before the first heading.
C6_SpansPartition ==
    seg_pc \in {"loop", "chunking", "done"} =>
        LET n == Len(matches)
            heads == MatchStarts(text)
        IN  /\ n = Cardinality(heads)
            /\ Len(spans) <= n
            /\ \A i \in 1..Len(spans) :
                  /\ spans[i].start = matches[i].start
                  /\ spans[i].start + 1 \in heads
                  /\ spans[i].start < spans[i].end
                  /\ spans[i].end = IF i < n THEN matches[i + 1].start ELSE Len(text)
                  /\ i > 1 => spans[i - 1].end = spans[i].start
            /\ Len(spans) > 0 => spans[1].start + 1 = Min(heads)
            /\ seg_pc = "done" =>
                  /\ Len(spans) = n
                  /\ n > 0 =>
                        SpanText(text, n) = SubSeq(text, spans[1].start + 1, Len(text))

\* two spans cut from a text that begins before its first heading
C6_Witness ==
    /\ seg_pc = "done"
    /\ Len(spans) >= 2
    /\ spans[1].start > 0

IsBlank(t) == \A k \in 1..Len(t) : t[k] = SP

\* C7: processing_by_month on a text with no month-year match returns an
\* empty list, and chunk_monthly_data on a month text that is empty or
\* whitespace after its leading month label returns an empty list.
C7_EmptyInEmptyOut ==
    /\ (seg_pc = "done" /\ MatchStarts(text) = {}) => all_chunks = <<>>
    /\ (/\ pc = "done"
        /\ IsBlank(IF StartsWith(month_text, month_str)
                   THEN SubSeq(month_text, Len(month_str) + 1, Len(month_text))
                   ELSE month_text))
       => chunks = <<>>

\* chunk_monthly_data has returned on a heading followed by whitespace only
C7_Witness ==
    /\ pc = "done"
    /\ month_str = Heading
    /\ month_text = Heading \o <<SP, SP>>
    /\ chunks = <<>>

----------------------------------------------------------------------------
(* Claims about index_chunks *)

\* the last chunk of cs that carries chunk_id id
LastWithId(cs, id) == cs[Max({k \in 1..Len(cs) : cs[k].chunk_id = id})]

\* C8: index_chunks attempts every chunk once, in order, and runs to the end:
\* an iteration takes the chunk at the cursor and moves the cursor by one
\* whatever the outcome; a failed attempt leaves the index as it was, and a
\* successful one leaves the chunk's document under its chunk_id.
C8_FailureIsolated ==
    /\ [][(idx_pc = "loop" /\ idx_i < Len(data_chunks) /\ vars' # vars) =>
            LET chunk == data_chunks[idx_i + 1]
            IN  /\ idx_pc' = "loop"
                /\ idx_i' = idx_i + 1
                /\ last'.i = idx_i + 1
                /\ last'.outcome # "ok" => store' = store
                /\ last'.outcome = "ok" =>
                      /\ chunk.chunk_id \in DOMAIN store'
                      /\ store'[chunk.chunk_id].document = Doc(chunk)
                      /\ \A id \in DOMAIN store : id # chunk.chunk_id => store'[id] = store[id]]_vars
    /\ []((idx_pc = "done" /\ data_chunks # <<>>) =>
            (idx_i = Len(data_chunks) /\ last.i = Len(data_chunks)))

\* index_chunks has returned; an early chunk failed and the last one, after
\* it, was indexed
C8_Witness ==
    /\ idx_pc = "done"
    /\ Len(data_chunks) >= 2
    /\ 1 \in failed
    /\ last = [i |-> Len(data_chunks), outcome |-> "ok"]
    /\ data_chunks[Len(data_chunks)].chunk_id \in DOMAIN store

\* C9: the index never holds a record under an id other than those it had
\* before and the chunks' ids; and after a run without failure, whatever the
\* runs before it, it holds exactly those ids, each chunk id with the document
\* this run wrote last under it, the other records as they were.
C9_IdempotentIndexing ==
    LET ids == ChunkIds(data_chunks)
    IN  /\ DOMAIN store \subseteq (DOMAIN store_init) \cup ids
        /\ (idx_pc = "done" /\ data_chunks # <<>> /\ failed = {}) =>
              /\ DOMAIN store = (DOMAIN store_init) \cup ids
              /\ Cardinality(DOMAIN store) = Cardinality((DOMAIN store_init) \cup ids)
              /\ \A id \in ids :
                    store[id] = [document |-> Doc(LastWithId(data_chunks, id)),
                                 written_in |-> run]
              /\ \A id \in (DOMAIN store_init) \ ids : store[id] = store_init[id]

\* a second run without failure, after a run that had failures, on chunks that
\* include two with the same chunk_id, against an index that held a record
C9_Witness ==
    /\ idx_pc = "done"
    /\ run = 2
    /\ prev_failed
    /\ failed = {}
    /\ Len(data_chunks) > Cardinality(ChunkIds(data_chunks))
    /\ store_init # EmptyStore

\* C10: index_chunks returns a report that lists every chunk's id as succeeded
\* exactly when its embedding and upsert succeeded and as failed otherwise, and
\* what the caller reports after the batch reflects any failure.
C10_ReportTellsFailures ==
    (idx_pc = "done" /\ data_chunks # <<>>) =>
        /\ ret.is_report
        /\ ret.failed = {data_chunks[k].chunk_id : k \in failed}
        /\ ret.succeeded = {data_chunks[k].chunk_id : k \in (1..Len(data_chunks)) \ failed}
        /\ caller_msg = "All chunks indexed successfully!" => failed = {}

----------------------------------------------------------------------------
(* Claims about semantic_search *)

\* C11: a failure of the embedding or of the store search reaches the caller
\* as an error and never as a hit list; a call that returns gives the hits
\* the store answered with, in the store's order and at most top_k of them,
\* and none when the store is empty.
C11_SearchFailureIsNotEmptyResult ==
    /\ search_pc = "raised" =>
          /\ search_ret.kind = "raised"
          /\ search_ret.error \in {"encode_error", "search_error"}
    /\ search_pc = "done" =>
          /\ search_ret.kind = "hits"
          /\ search_ret.hits = response
          /\ Len(search_ret.hits) <= top_k
          /\ Len(search_ret.hits) <= Cardinality(DOMAIN store)
          /\ \A i, j \in DOMAIN search_ret.hits :
                /\ search_ret.hits[i].id \in DOMAIN store
                /\ i # j => search_ret.hits[i].id # search_ret.hits[j].id
          /\ store = EmptyStore => search_ret.hits = <<>>

\* a search over more documents than top_k that returned top_k hits
C11_Witness ==
    /\ search_pc = "done"
    /\ Cardinality(DOMAIN store) > top_k
    /\ Len(search_ret.hits) = top_k
    /\ top_k > 1

----------------------------------------------------------------------------
(* Claims about SmartChatAgent *)

\* C12: whatever plan text the language model returns, blank ones included,
\* a run of the graph enters plan_task once, then execute_step once per
\* retained step and at most max_plan_steps times, then finalize_answer once,
\* and ends; execute_step is not entered when no step remains.  A run is cut
\* short only when a language model call raises.
C12_GraphVisitsEachStepOnce ==
    /\ agent_pc = "execute_step" => Len(results) < Len(steps)
    /\ agent_pc = "raised" => llm_raised
    /\ visits.execute_step > 0 => visits.plan_task = 1
    /\ visits.execute_step <= Len(steps)
    /\ Len(steps) <= max_plan_steps
    /\ visits.finalize_answer > 0 =>
          /\ visits.execute_step = Len(steps)
          /\ Len(results) = Len(steps)
    /\ agent_pc \in {"end", "returned"} =>
          visits = [plan_task |-> 1, execute_step |-> Len(steps),
                    finalize_answer |-> 1]
RECURSIVE Exchanges(_)
\* the questions of the calls that returned, each followed by its answer
Exchanges(cs) ==
    IF cs = <<>> THEN <<>>
    ELSE LET c == cs[Len(cs)]
         IN  Exchanges(SubSeq(cs, 1, Len(cs) - 1))
             \o (IF c.status = "returned"
                 THEN <<HumanMessage(c.question), AIMessage(c.answer)>>
                 ELSE <<>>)

\* C13: between answer_user_query calls, whether they returned or raised,
\* _history is made of question and final answer pairs in call order: every
\* question is directly followed by the answer of its call, and nothing else
\* is in it.
C13_HistoryIsQuestionAnswerPairs ==
    agent_pc \in {"ready", "returned", "raised"} =>
        /\ \A i \in DOMAIN history :
              history[i].type = "human" =>
                  /\ i < Len(history)
                  /\ history[i + 1].type = "ai"
        /\ history = Exchanges(calls)

----------------------------------------------------------------------------
(* Claims about the chunk_ids of an ingestion run *)

DistinctIds(cs) ==
    \A i, j \in DOMAIN cs : i # j => cs[i].chunk_id # cs[j].chunk_id

\* C14: the chunks that processing_by_month returns for a document, and the
\* chunks that parse_all_pdfs_by_month returns for a folder, have pairwise
\* distinct chunk_ids; hence after index_chunks wrote all of them into a new
\* index, the index holds one document per chunk, and under each chunk's id
\* the document of that chunk.
C14_ChunkIdsDistinct ==
    /\ seg_pc = "done" => DistinctIds(all_chunks)
    /\ ingest_pc = "done" => DistinctIds(folder_chunks)
    /\ (ingest_pc = "done" /\ idx_pc = "done" /\ failed = {}) =>
          /\ Cardinality(DOMAIN store) = Len(data_chunks)
          /\ \A i \in DOMAIN data_chunks :
                store[data_chunks[i].chunk_id].document = Doc(data_chunks[i])

----------------------------------------------------------------------------
(* Claims about the backend's chat_history *)

\* C15: chat_history never holds more than 20 entries, and whenever no /chat
\* request is being served (however the requests so far interleaved, and
\* whether their agent calls returned or raised) it is made of whole
\* exchanges: every user entry is directly followed by the assistant entry
\* of the same request, and every assistant entry directly follows the user
\* entry it answers.
C15_ChatHistoryWholeExchanges ==
    /\ Len(chat_history) <= ChatMaxLen
    /\ InFlight = {} =>
          \A i \in DOMAIN chat_history :
             /\ chat_history[i].role = "user" =>
                   /\ i < Len(chat_history)
                   /\ chat_history[i + 1].role = "assistant"
                   /\ chat_history[i + 1].of = chat_history[i].of
             /\ chat_history[i].role = "assistant" =>
                   /\ i > 1
                   /\ chat_history[i - 1].role = "user"
                   /\ chat_history[i - 1].of = chat_history[i].of

====
